---------------------------- MODULE Spec2Model ----------------------------
(***************************************************************************)
(* Resume parser service: the Flask handlers of app.py and the             *)
(* ResumeParserService functions they call.  A Python str is modelled as   *)
(* the sequence of its characters (one-character strings), a list as a     *)
(* sequence, a dict as a record or a function, None as the value None.     *)
(***************************************************************************)
EXTENDS Integers, Sequences, FiniteSets, TLC

\* Python's None, where a str may stand (a page's text, end_date)
None == <<"None">>

(***************************************************************************)
(* Python str primitives used by the service.                              *)
(***************************************************************************)
UpperChars == <<"A","B","C","D","E","F","G","H","I","J","K","L","M","N","O","P","Q","R","S","T","U","V","W","X","Y","Z">>
LowerChars == <<"a","b","c","d","e","f","g","h","i","j","k","l","m","n","o","p","q","r","s","t","u","v","w","x","y","z">>
DigitChars == <<"0","1","2","3","4","5","6","7","8","9">>

Range(s) == {s[i] : i \in 1..Len(s)}

UpperSet == Range(UpperChars)
LowerSet == Range(LowerChars)
DigitSet == Range(DigitChars)
SpaceSet == {" ", "\t", "\n"}

IsSpace(c) == c \in SpaceSet
IsDigit(c) == c \in DigitSet
IsAlpha(c) == c \in UpperSet \cup LowerSet

\* str.lower() on one character
LowerTable == [c \in UpperSet |-> LowerChars[CHOOSE i \in 1..26 : UpperChars[i] = c]]
LowerChar(c) == IF c \in UpperSet THEN LowerTable[c] ELSE c

\* str.lower()
Lower(s) == [i \in 1..Len(s) |-> LowerChar(s[i])]

\* str.isupper(): at least one cased character and no lowercase one
IsUpper(s) ==
    /\ \E i \in 1..Len(s) : s[i] \in UpperSet
    /\ \A i \in 1..Len(s) : s[i] \notin LowerSet

\* str.strip()
Strip(s) ==
    LET keep == {i \in 1..Len(s) : ~IsSpace(s[i])}
    IN  IF keep = {} THEN <<>>
        ELSE SubSeq(s, CHOOSE i \in keep : \A j \in keep : i <= j,
                       CHOOSE i \in keep : \A j \in keep : j <= i)

\* s[i:].startswith(p), i being a 1-based position
MatchAt(s, i, p) ==
    /\ i + Len(p) - 1 <= Len(s)
    /\ \A k \in 1..Len(p) : s[i + k - 1] = p[k]

\* str.startswith
StartsWith(s, p) == MatchAt(s, 1, p)

\* the `in` operator on two strings
Contains(s, p) == \E i \in 1..(Len(s) - Len(p) + 1) : MatchAt(s, i, p)

\* the elements of a finite set of integers, in increasing order
Sorted(S) ==
    [k \in 1..Cardinality(S) |-> CHOOSE i \in S : Cardinality({j \in S : j <= i}) = k]

\* str.split(sep) for a one-character separator: every separator cuts, empty
\* pieces are kept
Split(s, sep) ==
    LET cuts == Sorted({i \in 1..Len(s) : s[i] = sep})
        n    == Len(cuts)
    IN  [k \in 1..(n + 1) |->
            SubSeq(s, IF k = 1 THEN 1 ELSE cuts[k - 1] + 1,
                      IF k = n + 1 THEN Len(s) ELSE cuts[k] - 1)]

\* the maximal runs of characters of s outside the set seps, in order
Runs(s, seps) ==
    LET starts == Sorted({i \in 1..Len(s) :
                            s[i] \notin seps /\ (i = 1 \/ s[i - 1] \in seps)})
        ends   == Sorted({i \in 1..Len(s) :
                            s[i] \notin seps /\ (i = Len(s) \/ s[i + 1] \in seps)})
    IN  [k \in 1..Len(starts) |-> SubSeq(s, starts[k], ends[k])]

\* str.split() with no argument: split on runs of whitespace, no empty pieces
SplitWords(s) == Runs(s, SpaceSet)

\* str.splitlines() (line breaks "\n" only; no empty last line)
SplitLines(s) ==
    LET parts == Split(s, "\n")
    IN  IF parts[Len(parts)] = <<>> THEN SubSeq(parts, 1, Len(parts) - 1) ELSE parts

\* sep.join(list)
RECURSIVE Join(_, _)
Join(list, sep) ==
    IF list = <<>> THEN <<>>
    ELSE IF Len(list) = 1 THEN list[1]
    ELSE list[1] \o sep \o Join(Tail(list), sep)

\* str.replace(old, ""): drop the occurrences of old, found left to right
RECURSIVE RemoveFrom(_, _, _)
RemoveFrom(s, old, i) ==
    LET hits == {j \in i..Len(s) : MatchAt(s, j, old)}
        j    == CHOOSE x \in hits : \A y \in hits : x <= y
    IN  IF hits = {} THEN SubSeq(s, i, Len(s))
        ELSE SubSeq(s, i, j - 1) \o RemoveFrom(s, old, j + Len(old))

Remove(s, old) == RemoveFrom(s, old, 1)

\* the sequences over S of length 0..n
SeqsUpTo(S, n) == UNION {[1..k -> S] : k \in 0..n}

(***************************************************************************)
(* Regular expressions of the section parsers.                             *)
(***************************************************************************)
DigitsAt(s, i, n) == i + n - 1 <= Len(s) /\ \A k \in 0..(n - 1) : IsDigit(s[i + k])

\* re.findall(r'\d{4}', s): non-overlapping runs of four digits, left to right
RECURSIVE YearTokensFrom(_, _)
YearTokensFrom(s, i) ==
    IF i > Len(s) THEN <<>>
    ELSE IF DigitsAt(s, i, 4) THEN <<SubSeq(s, i, i + 3)>> \o YearTokensFrom(s, i + 4)
    ELSE YearTokensFrom(s, i + 1)

YearTokens(s) == YearTokensFrom(s, 1)

\* re.findall(r'\d{2}/\d{4}|\d{4}', s): at each position the first alternative
\* (MM/YYYY) is tried before the second (YYYY)
RECURSIVE DateTokensFrom(_, _)
DateTokensFrom(s, i) ==
    IF i > Len(s) THEN <<>>
    ELSE IF DigitsAt(s, i, 2) /\ i + 2 <= Len(s) /\ s[i + 2] = "/" /\ DigitsAt(s, i + 3, 4)
         THEN <<SubSeq(s, i, i + 6)>> \o DateTokensFrom(s, i + 7)
    ELSE IF DigitsAt(s, i, 4) THEN <<SubSeq(s, i, i + 3)>> \o DateTokensFrom(s, i + 4)
    ELSE DateTokensFrom(s, i + 1)

DateTokens_YearOnly(s) == YearTokens(s)

DateTokens(s) == DateTokensFrom(s, 1)

\* re.split(r',|\s+', s): a comma or a run of whitespace cuts; empty pieces are kept
ReSplitCommaSpace(s) ==
    LET \* where a separator (one comma, or one whole run of whitespace) starts, ends
        starts == Sorted({i \in 1..Len(s) :
                            \/ s[i] = ","
                            \/ IsSpace(s[i]) /\ (i = 1 \/ ~IsSpace(s[i - 1]))})
        ends   == Sorted({i \in 1..Len(s) :
                            \/ s[i] = ","
                            \/ IsSpace(s[i]) /\ (i = Len(s) \/ ~IsSpace(s[i + 1]))})
        n      == Len(starts)
    IN  [k \in 1..(n + 1) |->
            SubSeq(s, IF k = 1 THEN 1 ELSE ends[k - 1] + 1,
                      IF k = n + 1 THEN Len(s) ELSE starts[k] - 1)]

\* [part.strip() for part in line.split("|")]
Parts(line) == LET raw == Split(line, "|") IN [k \in 1..Len(raw) |-> Strip(raw[k])]

(***************************************************************************)
(* _parse_experience_detailed                                              *)
(***************************************************************************)
\* the dict current_exp is created with (key "Company Name" is Company_Name)
NewExp ==
    [Company_Name |-> <<>>, location |-> <<>>, description |-> <<>>,
     start_date |-> <<>>, end_date |-> None, projects |-> <<>>]

\* the fields a '|' line sets in current_exp
ExpHeader(cur, line) ==
    LET parts == Parts(line)
        dates == IF Len(parts) >= 2 THEN DateTokens(parts[2]) ELSE <<>>
    IN  [cur EXCEPT
           !.Company_Name = parts[1],
           !.start_date = IF Len(dates) >= 1 THEN dates[1] ELSE @,
           !.end_date = IF Len(dates) >= 2 THEN dates[2]
                        ELSE IF Len(parts) >= 2 /\ Contains(Lower(parts[2]), <<"p","r","e","s","e","n","t">>)
                             THEN None
                        ELSE @,
           !.location = IF Len(parts) >= 3 THEN parts[3] ELSE @,
           !.projects = IF Len(parts) >= 4 THEN parts[4] ELSE @]

\* one iteration of the loop over experience_lines; st = [experiences, current_exp]
ExpLine(st, line) ==
    IF Contains(line, <<"|">>)
    THEN [experiences |-> IF st.current_exp.Company_Name # <<>>
                          THEN Append(st.experiences, st.current_exp)
                          ELSE st.experiences,
          current_exp |-> ExpHeader(st.current_exp, line)]
    ELSE IF Strip(line) # <<>> /\ ~StartsWith(Strip(line), <<"-">>)
         THEN [st EXCEPT !.current_exp.description = @ \o Strip(line) \o <<" ">>]
    ELSE st

RECURSIVE ExpLoop(_, _)
ExpLoop(st, lines) ==
    IF lines = <<>> THEN st ELSE ExpLoop(ExpLine(st, lines[1]), Tail(lines))

_parse_experience_detailed(experience_lines) ==
    LET st == ExpLoop([experiences |-> <<>>, current_exp |-> NewExp], experience_lines)
    IN  IF st.current_exp.Company_Name # <<>>
        THEN Append(st.experiences, st.current_exp)
        ELSE st.experiences

(***************************************************************************)
(* _parse_education_detailed                                               *)
(***************************************************************************)
EducationRecord_ParsesGPA(line) ==
    LET parts == Parts(line)
        dates == IF Len(parts) >= 3 THEN YearTokens(parts[3]) ELSE <<>>
    IN  [university_name |-> parts[1],
         graduate_date |-> IF dates # <<>> THEN dates[1] ELSE <<>>,
         location |-> IF Len(parts) >= 2 THEN parts[2] ELSE <<>>,
         GPA |-> IF Len(parts) >= 4 THEN parts[4] ELSE <<>>]

\* the dict built for one kept line
EducationRecord(line) ==
    LET parts == Parts(line)
        dates == IF Len(parts) >= 3 THEN YearTokens(parts[3]) ELSE <<>>
    IN  [university_name |-> parts[1],
         graduate_date |-> IF dates # <<>> THEN dates[1] ELSE <<>>,
         location |-> IF Len(parts) >= 2 THEN parts[2] ELSE <<>>,
         GPA |-> <<>>]

RECURSIVE _parse_education_detailed(_)
_parse_education_detailed(education_lines) ==
    IF education_lines = <<>> THEN <<>>
    ELSE LET line == education_lines[1]
         IN  (IF line # <<>> /\ ~StartsWith(line, <<"-">>)
              THEN <<EducationRecord(line)>> ELSE <<>>)
             \o _parse_education_detailed(Tail(education_lines))

(***************************************************************************)
(* _parse_skills_improved, _parse_interests_improved,                      *)
(* _parse_volunteer_improved, _parse_additional_info                       *)
(***************************************************************************)
KeepSkill(skill) ==
    Strip(skill) # <<>> /\ Len(Strip(skill)) > 1 /\ ~StartsWith(Strip(skill), <<"-">>)

StripAll(list) == [k \in 1..Len(list) |-> Strip(list[k])]

_parse_skills_improved(skills_lines) ==
    StripAll(SelectSeq(ReSplitCommaSpace(Join(skills_lines, <<" ">>)), KeepSkill))

_parse_interests_improved(interests_lines) == _parse_skills_improved(interests_lines)

KeepLine(line) == line # <<>> /\ ~StartsWith(line, <<"-">>)

_parse_volunteer_improved(volunteer_lines) == SelectSeq(volunteer_lines, KeepLine)

KeepAdditionalSkill(skill) == Strip(skill) # <<>> /\ Len(Strip(skill)) > 1

\* one iteration of the loop over additional_lines
AdditionalLine(info, line) ==
    IF ~KeepLine(line) THEN info
    ELSE IF Contains(Lower(line), <<"v","o","l","u","n","t","e","e","r">>)
         THEN LET volunteer_text == Strip(Remove(line, <<"V","o","l","u","n","t","e","e","r",":">>))
              IN  IF volunteer_text # <<>>
                  THEN [info EXCEPT !.volunteer = Append(@, volunteer_text)]
                  ELSE info
    ELSE IF Contains(Lower(line), <<"s","k","i","l","l","s">>)
         THEN LET skills_text == Strip(Remove(line, <<"S","k","i","l","l","s",":">>))
              IN  IF skills_text # <<>>
                  THEN [info EXCEPT !.skills = @ \o
                          StripAll(SelectSeq(ReSplitCommaSpace(skills_text),
                                             KeepAdditionalSkill))]
                  ELSE info
    ELSE [info EXCEPT !.interests = Append(@, line)]

RECURSIVE AdditionalLoop(_, _)
AdditionalLoop(info, lines) ==
    IF lines = <<>> THEN info
    ELSE AdditionalLoop(AdditionalLine(info, lines[1]), Tail(lines))

_parse_additional_info(additional_lines) ==
    AdditionalLoop([skills |-> <<>>, volunteer |-> <<>>, interests |-> <<>>],
                   additional_lines)

(***************************************************************************)
(* _extract_sections_improved                                              *)
(***************************************************************************)
\* the dict section_keywords, in its iteration (insertion) order
section_keywords ==
    << [name |-> "experience",
        keywords |-> <<<<"e","x","p","e","r","i","e","n","c","e">>, <<"w","o","r","k"," ","e","x","p","e","r","i","e","n","c","e">>, <<"e","m","p","l","o","y","m","e","n","t">>,
                       <<"p","r","o","f","e","s","s","i","o","n","a","l"," ","e","x","p","e","r","i","e","n","c","e">>>>],
       [name |-> "education",
        keywords |-> <<<<"e","d","u","c","a","t","i","o","n">>, <<"a","c","a","d","e","m","i","c">>, <<"q","u","a","l","i","f","i","c","a","t","i","o","n","s">>>>],
       [name |-> "skills",
        keywords |-> <<<<"s","k","i","l","l","s">>, <<"t","e","c","h","n","i","c","a","l"," ","s","k","i","l","l","s">>, <<"c","o","m","p","e","t","e","n","c","i","e","s">>,
                       <<"t","e","c","h","n","o","l","o","g","i","e","s">>>>],
       [name |-> "interests",
        keywords |-> <<<<"i","n","t","e","r","e","s","t","s">>, <<"h","o","b","b","i","e","s">>, <<"a","c","t","i","v","i","t","i","e","s">>>>],
       [name |-> "volunteer",
        keywords |-> <<<<"v","o","l","u","n","t","e","e","r">>, <<"v","o","l","u","n","t","e","e","r","i","n","g">>, <<"c","o","m","m","u","n","i","t","y"," ","s","e","r","v","i","c","e">>>>],
       [name |-> "additional_info",
        keywords |-> <<<<"a","d","d","i","t","i","o","n","a","l"," ","i","n","f","o","r","m","a","t","i","o","n">>, <<"a","d","d","i","t","i","o","n","a","l"," ","i","n","f","o">>,
                       <<"o","t","h","e","r"," ","i","n","f","o","r","m","a","t","i","o","n">>>>] >>

\* None as the value of current_section and found_section
NoSection == "NoSection"

SectionKinds == {section_keywords[k].name : k \in 1..Len(section_keywords)}

\* any(keyword in line_lower for keyword in keywords)
AnyKeywordIn(keywords, line_lower) ==
    \E k \in 1..Len(keywords) : Contains(line_lower, keywords[k])

\* the for/break loop that sets found_section: the first kind, in table order,
\* one of whose keywords occurs in the line; NoSection when there is none
FoundSection(line_lower) ==
    LET hits == {k \in 1..Len(section_keywords) :
                    AnyKeywordIn(section_keywords[k].keywords, line_lower)}
    IN  IF hits = {} THEN NoSection
        ELSE section_keywords[CHOOSE k \in hits : \A j \in hits : k <= j].name

\* "Skip empty lines and separators"
IsSkipped(line_clean) ==
    line_clean = <<>> \/ (StartsWith(line_clean, <<"-">>) /\ Len(line_clean) > 10)

IsCapsHeader_AnyCaps(line_clean) ==
    IsUpper(line_clean) /\ Len(SplitWords(line_clean)) <= 3

\* the test of the inner `if`: an all-caps line of at most 3 words in which some
\* keyword of the table occurs
IsCapsHeader(line_clean) ==
    /\ IsUpper(line_clean)
    /\ Len(SplitWords(line_clean)) <= 3
    /\ \E k \in 1..Len(section_keywords) :
          AnyKeywordIn(section_keywords[k].keywords, Lower(line_clean))

\* sections[key] = value
SetItem(dict, key, value) == (key :> value) @@ dict

EmptyDict == [k \in {} |-> <<>>]

\* which branch of the loop body a line takes
Branch(cur_section, line) ==
    LET line_clean == Strip(line)
    IN  IF IsSkipped(line_clean) THEN "skip"
        ELSE IF FoundSection(Lower(line_clean)) # NoSection THEN "header"
        ELSE IF cur_section = NoSection THEN "outside"
        ELSE IF IsCapsHeader(line_clean) THEN "boundary"
        ELSE "body"

\* "Save previous section" / "Save last section"
SaveSection(st) ==
    IF st.current_section # NoSection /\ st.current_content # <<>>
    THEN SetItem(st.sections, st.current_section, st.current_content)
    ELSE st.sections

\* one iteration of the loop over lines;
\* st = [sections, current_section, current_content]
SegmentLine(st, line) ==
    LET line_clean == Strip(line)
        branch == Branch(st.current_section, line)
    IN  CASE branch = "skip" -> st
          [] branch = "header" ->
                [sections |-> SaveSection(st),
                 current_section |-> FoundSection(Lower(line_clean)),
                 current_content |-> <<>>]
          [] branch = "outside" -> st
          [] branch = "boundary" ->
                [sections |-> IF st.current_content # <<>>
                              THEN SetItem(st.sections, st.current_section,
                                           st.current_content)
                              ELSE st.sections,
                 current_section |-> NoSection,
                 current_content |-> <<>>]
          [] branch = "body" ->
                [st EXCEPT !.current_content = Append(@, line_clean)]

SegmentStart ==
    [sections |-> EmptyDict, current_section |-> NoSection, current_content |-> <<>>]

RECURSIVE SegmentLoop(_, _)
SegmentLoop(st, ls) ==
    IF ls = <<>> THEN st ELSE SegmentLoop(SegmentLine(st, ls[1]), Tail(ls))

_extract_sections_improved(txt) ==
    SaveSection(SegmentLoop(SegmentStart, Split(txt, "\n")))

(***************************************************************************)
(* The regular expressions of extract_resume_info, as data: a pattern is a *)
(* sequence of items, matched by backtracking in Python's priority order   *)
(* (a greedy repetition tries its longest run first, an alternation its    *)
(* first alternative first).                                               *)
(***************************************************************************)
\* set{lo,hi}, greedy
Rep(set, lo, hi) ==
    [t |-> "set", set |-> set, neg |-> FALSE, lo |-> lo, bounded |-> TRUE, hi |-> hi]
\* set{lo,}, greedy
RepMin(set, lo) ==
    [t |-> "set", set |-> set, neg |-> FALSE, lo |-> lo, bounded |-> FALSE, hi |-> lo]
\* [^set]{lo,}, greedy
NotRepMin(set, lo) ==
    [t |-> "set", set |-> set, neg |-> TRUE, lo |-> lo, bounded |-> FALSE, hi |-> lo]
\* (?:a|b|...) over literal strings; a literal is the one-alternative case
Alt(alts) == [t |-> "alt", alts |-> alts]
Lit(str) == Alt(<<str>>)
\* \b
WordBoundary == [t |-> "wb"]
\* $ (without re.MULTILINE): the end of the string, or just before a final "\n"
End == [t |-> "end"]

UpperTable == [c \in LowerSet |-> UpperChars[CHOOSE i \in 1..26 : LowerChars[i] = c]]
UpperChar(c) == IF c \in LowerSet THEN UpperTable[c] ELSE c

\* \w
IsWordChar(c) == c \in UpperSet \cup LowerSet \cup DigitSet \cup {"_"}
WordAt(s, i) == i >= 1 /\ i <= Len(s) /\ IsWordChar(s[i])

\* whether character c is in the item's class; ic is the re.IGNORECASE flag
InClass(c, item, ic) ==
    (c \in item.set \/ (ic /\ (LowerChar(c) \in item.set \/ UpperChar(c) \in item.set)))
        # item.neg

\* whether literal lit occurs in s at position pos
LitAt(s, pos, lit, ic) ==
    /\ pos + Len(lit) - 1 <= Len(s)
    /\ \A k \in 1..Len(lit) :
          IF ic THEN LowerChar(s[pos + k - 1]) = LowerChar(lit[k])
          ELSE s[pos + k - 1] = lit[k]

\* the length of the run of class characters of s from pos, at most cap
RECURSIVE RunLength(_, _, _, _, _)
RunLength(s, pos, item, ic, cap) ==
    IF cap = 0 \/ pos > Len(s) THEN 0
    ELSE IF ~InClass(s[pos], item, ic) THEN 0
    ELSE 1 + RunLength(s, pos + 1, item, ic, cap - 1)

SetMax(S) == CHOOSE x \in S : \A y \in S : y <= x
SetMin(S) == CHOOSE x \in S : \A y \in S : x <= y

\* Match items k.. of the pattern against s from position pos.  The value is
\* the position after the match the backtracking search finds first, 0 when
\* there is no match.
RECURSIVE MatchFrom(_, _, _, _, _)
MatchFrom(items, k, s, pos, ic) ==
    IF k > Len(items) THEN pos
    ELSE LET item == items[k]
         IN  CASE item.t = "wb" ->
                    IF WordAt(s, pos - 1) # WordAt(s, pos)
                    THEN MatchFrom(items, k + 1, s, pos, ic) ELSE 0
               [] item.t = "end" ->
                    IF pos = Len(s) + 1 \/ (pos = Len(s) /\ s[pos] = "\n")
                    THEN MatchFrom(items, k + 1, s, pos, ic) ELSE 0
               [] item.t = "alt" ->
                    LET ok == {a \in 1..Len(item.alts) :
                                  /\ LitAt(s, pos, item.alts[a], ic)
                                  /\ MatchFrom(items, k + 1, s,
                                               pos + Len(item.alts[a]), ic) # 0}
                    IN  IF ok = {} THEN 0
                        ELSE MatchFrom(items, k + 1, s,
                                       pos + Len(item.alts[SetMin(ok)]), ic)
               [] item.t = "set" ->
                    LET n  == RunLength(s, pos, item, ic,
                                        IF item.bounded THEN item.hi ELSE Len(s))
                        ok == {c \in item.lo..n :
                                  MatchFrom(items, k + 1, s, pos + c, ic) # 0}
                    IN  IF ok = {} THEN 0
                        ELSE MatchFrom(items, k + 1, s, pos + SetMax(ok), ic)

\* re.match(pattern, s) is not None
ReMatch(items, s, ic) == MatchFrom(items, 1, s, 1, ic) # 0

\* the start positions at which the pattern matches
MatchStarts(items, s, ic) == {i \in 1..Len(s) : MatchFrom(items, 1, s, i, ic) # 0}

\* re.search(pattern, s) is not None
ReSearch(items, s, ic) == MatchStarts(items, s, ic) # {}

\* re.findall(pattern, s)[0] for a pattern without groups: the leftmost match;
\* only called when there is one
FirstMatch(items, s, ic) ==
    LET i == SetMin(MatchStarts(items, s, ic))
    IN  SubSeq(s, i, MatchFrom(items, 1, s, i, ic) - 1)

\* re.split(r'[|,\s]+', s): every run of separators cuts; an empty piece stands
\* at an end where s starts or ends with a separator
ReSplitRuns(s, seps) ==
    LET runs == Runs(s, seps)
    IN  IF s = <<>> THEN << <<>> >>
        ELSE (IF s[1] \in seps THEN << <<>> >> ELSE <<>>)
             \o runs
             \o (IF s[Len(s)] \in seps THEN << <<>> >> ELSE <<>>)

(***************************************************************************)
(* extract_resume_info                                                     *)
(***************************************************************************)
AlnumSet == UpperSet \cup LowerSet \cup DigitSet

\* r'\b[A-Za-z0-9._%+-]+@[A-Za-z0-9.-]+\.[A-Z|a-z]{2,}\b'
email_pattern ==
    << WordBoundary,
       RepMin(AlnumSet \cup {".", "_", "%", "+", "-"}, 1),
       Lit(<<"@">>),
       RepMin(AlnumSet \cup {".", "-"}, 1),
       Lit(<<".">>),
       RepMin(UpperSet \cup LowerSet \cup {"|"}, 2),
       WordBoundary >>

\* the list phone_patterns, in its order
phone_patterns ==
    << \* r'\+?[\d\s\-\(\)]{10,}'
       << Rep({"+"}, 0, 1), RepMin(DigitSet \cup SpaceSet \cup {"-", "(", ")"}, 10) >>,
       \* r'\(\d{3}\)\s*\d{3}-\d{4}'
       << Lit(<<"(">>), Rep(DigitSet, 3, 3), Lit(<<")">>), RepMin(SpaceSet, 0),
          Rep(DigitSet, 3, 3), Lit(<<"-">>), Rep(DigitSet, 4, 4) >>,
       \* r'\d{3}-\d{3}-\d{4}'
       << Rep(DigitSet, 3, 3), Lit(<<"-">>), Rep(DigitSet, 3, 3), Lit(<<"-">>),
          Rep(DigitSet, 4, 4) >>,
       \* r'\d{10,}'
       << RepMin(DigitSet, 10) >> >>

\* r'github\.com/[^\s]+'
github_pattern == << Lit(<<"g","i","t","h","u","b",".","c","o","m","/">>), NotRepMin(SpaceSet, 1) >>
\* r'linkedin\.com/[^\s]+'
linkedin_pattern == << Lit(<<"l","i","n","k","e","d","i","n",".","c","o","m","/">>), NotRepMin(SpaceSet, 1) >>
\* r'https?://[^\s]*(?:portfolio|website|site)[^\s]*'
portfolio_pattern ==
    << Lit(<<"h","t","t","p">>), Rep({"s"}, 0, 1), Lit(<<":","/","/">>), NotRepMin(SpaceSet, 0),
       Alt(<<<<"p","o","r","t","f","o","l","i","o">>, <<"w","e","b","s","i","t","e">>, <<"s","i","t","e">>>>), NotRepMin(SpaceSet, 0) >>

\* the first pattern of phone_patterns that matches in s (0 when none does)
FirstPhonePattern(s) ==
    LET hits == {p \in 1..Len(phone_patterns) : ReSearch(phone_patterns[p], s, FALSE)}
    IN  IF hits = {} THEN 0 ELSE SetMin(hits)

\* "Extract email"
ExtractEmail(txt) ==
    IF ReSearch(email_pattern, txt, FALSE) THEN FirstMatch(email_pattern, txt, FALSE)
    ELSE <<>>

\* "Extract phone numbers (multiple formats)"
ExtractPhone(txt) ==
    LET p == FirstPhonePattern(txt)
    IN  IF p = 0 THEN <<>> ELSE Strip(FirstMatch(phone_patterns[p], txt, FALSE))

\* r'^[A-Z][a-z]+(?:\s+[A-Z][a-z]+)+$' against a stripped line: capitalised
\* words (one capital, then one or more lowercase letters) separated by runs of
\* whitespace, two words or more
IsNameWord(w) ==
    Len(w) >= 2 /\ w[1] \in UpperSet /\ \A k \in 2..Len(w) : w[k] \in LowerSet
MatchesName(line_clean) ==
    LET words == SplitWords(line_clean)
    IN  /\ Len(words) >= 2
        /\ \A k \in 1..Len(words) : IsNameWord(words[k])

\* "Extract name (first prominent name-like line)": the loop over lines[:5]
ExtractName(lines) ==
    LET hits == {k \in 1..Len(lines) :
                    /\ k <= 5
                    /\ MatchesName(Strip(lines[k]))
                    /\ Len(SplitWords(Strip(lines[k]))) >= 2}
    IN  IF hits = {} THEN <<>> ELSE Strip(lines[SetMin(hits)])

\* the test of the contact-line loop
IsContactLine(line) ==
    \/ ReSearch(email_pattern, line, FALSE)
    \/ \E p \in 1..Len(phone_patterns) : ReSearch(phone_patterns[p], line, FALSE)

\* the test a word of the contact line passes to be part of the location
IsLocationWord(w) ==
    LET word == Strip(w)
    IN  /\ word # <<>>
        /\ ~ReMatch(email_pattern, word, FALSE)
        /\ ~\E p \in 1..Len(phone_patterns) : ReMatch(phone_patterns[p], word, FALSE)
        /\ ~ReMatch(<<Lit(<<"h","t","t","p">>), Rep({"s"}, 0, 1), Lit(<<":","/","/">>)>>, word, FALSE)
        /\ ~ReMatch(<<Lit(<<"w","w","w",".">>)>>, word, FALSE)
        /\ ~ReMatch(<<Alt(<<<<"g","i","t","h","u","b",".","c","o","m">>, <<"l","i","n","k","e","d","i","n",".","c","o","m">>>>)>>, word, TRUE)
        /\ Len(word) > 2

\* "Extract location from contact line"
ExtractLocation(lines) ==
    LET hits == {k \in 1..Len(lines) : IsContactLine(lines[k])}
        contact_line == IF hits = {} THEN <<>> ELSE lines[SetMin(hits)]
        words == ReSplitRuns(contact_line, {"|", ","} \cup SpaceSet)
        location_words == StripAll(SelectSeq(words, IsLocationWord))
    IN  IF contact_line # <<>> /\ location_words # <<>>
        THEN Join(location_words, <<","," ">>) ELSE <<>>

\* "Extract links"
ExtractLink(pattern, txt) ==
    IF ReSearch(pattern, txt, TRUE) THEN FirstMatch(pattern, txt, TRUE) ELSE <<>>

\* page.extract_text() of one page: a str, None, or Throws when it raises
Throws == <<"Throws">>

\* the loop over pdf.pages of extract_resume_info and check_ats_compliance:
\* text += page_text + "\n" for every page whose text is truthy
RECURSIVE JoinPages(_)
JoinPages(pages) ==
    IF pages = <<>> THEN <<>>
    ELSE (IF pages[1] # None /\ pages[1] # <<>> THEN pages[1] \o <<"\n">> ELSE <<>>)
         \o JoinPages(Tail(pages))

\* whether opening the document or extracting a page's text raises
ExtractionThrows(doc) ==
    ~doc.opens \/ \E k \in 1..Len(doc.pages) : doc.pages[k] = Throws

Raise(msg) == [kind |-> "raise", error |-> msg]
Return(value) == [kind |-> "return", value |-> value]

\* "Extract additional information": the three guarded extend() calls
MergeAdditional(info, additional_info) ==
    [skills |-> info.skills \o additional_info.skills,
     interests |-> info.interests \o additional_info.interests,
     volunteer |-> info.volunteer \o additional_info.volunteer]

\* result["additional_info"], from the sections found
AdditionalInfoOf(sections) ==
    LET own == [skills |-> IF "skills" \in DOMAIN sections
                           THEN _parse_skills_improved(sections["skills"]) ELSE <<>>,
                interests |-> IF "interests" \in DOMAIN sections
                              THEN _parse_interests_improved(sections["interests"])
                              ELSE <<>>,
                volunteer |-> IF "volunteer" \in DOMAIN sections
                              THEN _parse_volunteer_improved(sections["volunteer"])
                              ELSE <<>>]
    IN  IF "additional_info" \in DOMAIN sections
        THEN MergeAdditional(own, _parse_additional_info(sections["additional_info"]))
        ELSE own

\* the dict result, from the text
ResumeRecord(txt) ==
    LET lines == Split(txt, "\n")
        sections == _extract_sections_improved(txt)
    IN  [full_name |-> ExtractName(lines),
         email |-> ExtractEmail(txt),
         phone |-> ExtractPhone(txt),
         location |-> ExtractLocation(lines),
         links |-> [github |-> ExtractLink(github_pattern, txt),
                    linkedin |-> ExtractLink(linkedin_pattern, txt),
                    portfolio |-> ExtractLink(portfolio_pattern, txt)],
         work_experience |-> IF "experience" \in DOMAIN sections
                             THEN _parse_experience_detailed(sections["experience"])
                             ELSE <<>>,
         education |-> IF "education" \in DOMAIN sections
                       THEN _parse_education_detailed(sections["education"])
                       ELSE <<>>,
         additional_info |-> AdditionalInfoOf(sections)]

extract_resume_info_NoBlankCheck(doc) ==
    IF ExtractionThrows(doc)
    THEN Raise("Could not extract text from PDF")
    ELSE Return(ResumeRecord(JoinPages(doc.pages)))

extract_resume_info(doc) ==
    IF ExtractionThrows(doc)
    THEN Raise("Could not extract text from PDF")
    ELSE LET txt == JoinPages(doc.pages)
         IN  IF Strip(txt) = <<>>
             THEN Raise("No text content found in PDF")
             ELSE Return(ResumeRecord(txt))

(***************************************************************************)
(* validate_pdf and check_ats_compliance                                   *)
(***************************************************************************)
MIN_WORDS_THRESHOLD == 50

\* the loop over pdf.pages of validate_pdf: text += page_text.strip() for every
\* page whose text is truthy (no separator between the pages)
RECURSIVE JoinPagesStripped(_)
JoinPagesStripped(pages) ==
    IF pages = <<>> THEN <<>>
    ELSE (IF pages[1] # None /\ pages[1] # <<>> THEN Strip(pages[1]) ELSE <<>>)
         \o JoinPagesStripped(Tail(pages))

validate_pdf_ExceptTrue(doc) ==
    IF ExtractionThrows(doc) THEN TRUE
    ELSE Len(SplitWords(JoinPagesStripped(doc.pages))) > MIN_WORDS_THRESHOLD

validate_pdf(doc) ==
    IF ExtractionThrows(doc) THEN FALSE
    ELSE Len(SplitWords(JoinPagesStripped(doc.pages))) > MIN_WORDS_THRESHOLD

\* r"^#\s+[A-Z][a-z]+(\s+[A-Z][a-z]+)+", for re.match (the group once: a
\* match of the pattern exists exactly when one with a single repetition does)
ats_name_pattern ==
    << Lit(<<"#">>), RepMin(SpaceSet, 1), Rep(UpperSet, 1, 1), RepMin(LowerSet, 1),
       RepMin(SpaceSet, 1), Rep(UpperSet, 1, 1), RepMin(LowerSet, 1) >>

\* r"\b[a-zA-Z0-9_.+-]+@[a-zA-Z0-9-]+\.[a-zA-Z0-9-.]+\b"
ats_email_pattern ==
    << WordBoundary,
       RepMin(AlnumSet \cup {"_", ".", "+", "-"}, 1),
       Lit(<<"@">>),
       RepMin(AlnumSet \cup {"-"}, 1),
       Lit(<<".">>),
       RepMin(AlnumSet \cup {"-", "."}, 1),
       WordBoundary >>

\* r"\(?\d{3}\)?[-.\s]?\d{3}[-.\s]?\d{4}\b", the part of phone_pattern after its
\* optional group
ats_phone_core ==
    << Rep({"("}, 0, 1), Rep(DigitSet, 3, 3), Rep({")"}, 0, 1),
       Rep({"-", "."} \cup SpaceSet, 0, 1), Rep(DigitSet, 3, 3),
       Rep({"-", "."} \cup SpaceSet, 0, 1), Rep(DigitSet, 4, 4), WordBoundary >>

\* r"(?:\+?\d{1,3}[-.\s]?)?...": the pattern with its optional group present
ats_phone_prefixed ==
    << Rep({"+"}, 0, 1), Rep(DigitSet, 1, 3), Rep({"-", "."} \cup SpaceSet, 0, 1) >>
        \o ats_phone_core

\* rf"\b{keyword}\b" for the keywords of education_keywords
education_content_pattern ==
    << WordBoundary,
       Alt(<<<<"u","n","i","v","e","r","s","i","t","y">>, <<"c","o","l","l","e","g","e">>, <<"b","a","c","h","e","l","o","r">>, <<"m","a","s","t","e","r">>, <<"p","h","d">>, <<"d","e","g","r","e","e">>,
             <<"e","d","u","c","a","t","i","o","n">>, <<"g","p","a">>, <<"g","r","a","d","u","a","t","i","o","n">>, <<"d","i","p","l","o","m","a">>, <<"f","a","c","u","l","t","y">>, <<"s","c","h","o","o","l">>>>),
       WordBoundary >>

\* r"^#+\s*EDUCATION\s*$"
education_section_pattern ==
    << RepMin({"#"}, 1), RepMin(SpaceSet, 0), Lit(<<"E","D","U","C","A","T","I","O","N">>), RepMin(SpaceSet, 0),
       End >>

\* r"^#+\s*WORK\s+EXPERIENCE\s*$"
work_section_pattern ==
    << RepMin({"#"}, 1), RepMin(SpaceSet, 0), Lit(<<"W","O","R","K">>), RepMin(SpaceSet, 1),
       Lit(<<"E","X","P","E","R","I","E","N","C","E">>), RepMin(SpaceSet, 0), End >>

\* r"^#+\s*ADDITIONAL\s+INFORMATION\s*$"
additional_section_pattern ==
    << RepMin({"#"}, 1), RepMin(SpaceSet, 0), Lit(<<"A","D","D","I","T","I","O","N","A","L">>), RepMin(SpaceSet, 1),
       Lit(<<"I","N","F","O","R","M","A","T","I","O","N">>), RepMin(SpaceSet, 0), End >>

\* r"Skills:\s*.+"
skills_content_pattern ==
    << Lit(<<"S","k","i","l","l","s",":">>), RepMin(SpaceSet, 0), NotRepMin({"\n"}, 1) >>

\* r"\b(company|position|experience|employment|work history|professional experience)\b"
work_content_pattern ==
    << WordBoundary,
       Alt(<<<<"c","o","m","p","a","n","y">>, <<"p","o","s","i","t","i","o","n">>, <<"e","x","p","e","r","i","e","n","c","e">>, <<"e","m","p","l","o","y","m","e","n","t">>, <<"w","o","r","k"," ","h","i","s","t","o","r","y">>,
             <<"p","r","o","f","e","s","s","i","o","n","a","l"," ","e","x","p","e","r","i","e","n","c","e">>>>),
       WordBoundary >>

\* lines.extend(page_text.splitlines()) for every page whose text is truthy
RECURSIVE PageLinesOf(_)
PageLinesOf(pages) ==
    IF pages = <<>> THEN <<>>
    ELSE (IF pages[1] # None /\ pages[1] # <<>> THEN SplitLines(pages[1]) ELSE <<>>)
         \o PageLinesOf(Tail(pages))

\* any(re.search(pattern, line.strip(), re.IGNORECASE) for line in lines), for a
\* pattern that starts with ^
SectionFound(pattern, ls) == \E k \in 1..Len(ls) : ReMatch(pattern, Strip(ls[k]), TRUE)

education_section_found(ls) == SectionFound(education_section_pattern, ls)
education_content_found(txt) == ReSearch(education_content_pattern, txt, TRUE)
work_experience_section_found(ls) == SectionFound(work_section_pattern, ls)

\* an ADDITIONAL INFORMATION title with "skills" in lines[i:i+5]
skills_section_found(ls) ==
    \E i \in 1..Len(ls) :
        /\ ReMatch(additional_section_pattern, Strip(ls[i]), TRUE)
        /\ \E j \in i..(i + 4) : j <= Len(ls) /\ Contains(Lower(ls[j]), <<"s","k","i","l","l","s">>)

skills_content_found(ls) ==
    \E k \in 1..Len(ls) : ReSearch(skills_content_pattern, ls[k], TRUE)

\* re.search(...): a Match object or None
MatchObject == <<"Match">>
ReSearchResult(items, s, ic) == IF ReSearch(items, s, ic) THEN MatchObject ELSE None

\* any(x): x has to be iterable, and a Match object and None are not
AnyRaises(x) == x \in {MatchObject, None}

\* fields as they would be if location, interests and volunteer were detected
AtsFields_DetectsAll(txt, ls, work_content_found) ==
    [c \in {"full_name", "email", "phone", "education", "work_experience", "skills",
            "location", "interests", "volunteer"} |-> TRUE]

\* the dict fields, given what work_content_found is
AtsFields(txt, ls, work_content_found) ==
    [full_name |-> \E k \in 1..Len(ls) : ReMatch(ats_name_pattern, Strip(ls[k]), FALSE),
     email |-> ReSearch(ats_email_pattern, txt, FALSE),
     phone |-> \/ ReSearch(ats_phone_prefixed, txt, FALSE)
               \/ ReSearch(ats_phone_core, txt, FALSE),
     education |-> education_section_found(ls) /\ education_content_found(txt),
     work_experience |-> work_experience_section_found(ls) /\ work_content_found,
     skills |-> skills_section_found(ls) \/ skills_content_found(ls),
     location |-> FALSE,
     interests |-> FALSE,
     volunteer |-> FALSE]

\* ats_compliant = all(fields.values()) and the dict returned
AtsReport(fields) ==
    [ats_compliant |-> \A c \in DOMAIN fields : fields[c],
     fields |-> fields,
     details |-> [name_pattern |-> "name_pattern", email_pattern |-> "email_pattern",
                  phone_pattern |-> "phone_pattern"]]

\* the dict returned when no text could be read
AtsError(msg) == [ats_compliant |-> FALSE, fields |-> EmptyDict, error |-> msg]

check_ats_compliance(doc) ==
    IF ExtractionThrows(doc)
    THEN Return(AtsError("Could not extract text from PDF"))
    ELSE LET txt == JoinPages(doc.pages)
             ls  == PageLinesOf(doc.pages)
             \* the argument of any() in work_content_found = any(re.search(...))
             found == ReSearchResult(work_content_pattern, txt, TRUE)
         IN  IF Strip(txt) = <<>>
             THEN Return(AtsError("No text content found in PDF (might be scanned image)"))
             ELSE IF AnyRaises(found) THEN Raise("TypeError")
             ELSE Return(AtsReport(AtsFields(txt, ls, found # None)))

(***************************************************************************)
(* ResponseHandler and the two routes of app.py                            *)
(***************************************************************************)
NoData == [none |-> TRUE]

\* ResponseHandler.success
success(data, message) ==
    [data |-> data, status |-> "success", message |-> message, status_code |-> 200]

\* ResponseHandler.error
error(message, data, status_code) ==
    [data |-> data, status |-> "error", message |-> message, status_code |-> status_code]

validation_error(message, data) == error(message, data, 400)
server_error(message) == error(message, NoData, 500)

\* ResumeParserService.download_file: the bytes, or an exception (a bad status,
\* a content type or a path that is not a PDF, a missing file)
DownloadOutcomes == {"ok", "Failed to download file.", "The file is not a PDF.",
                     "Local file not found"}

\* a request: whether its JSON body holds file_url, what download_file does with
\* it, and the document behind it (whether it opens, and what extract_text gives
\* for each page)
parse_resume(req) ==
    IF ~req.has_url
    THEN validation_error("Missing 'file_url' in request body", NoData)
    ELSE IF req.download # "ok" THEN server_error(req.download)
    ELSE LET extracted_info == extract_resume_info(req.doc)
         IN  IF extracted_info.kind = "raise" THEN server_error(extracted_info.error)
             ELSE success(extracted_info.value, "Resume parsed successfully.")

\* the response of is_readable and the number of check_ats_compliance calls made
is_readable(req) ==
    IF ~req.has_url
    THEN [response |-> validation_error("Missing 'file_url' in request body", NoData),
          ats_calls |-> 0]
    ELSE IF req.download # "ok"
    THEN [response |-> server_error(req.download), ats_calls |-> 0]
    ELSE IF ~validate_pdf(req.doc)
    THEN [response |-> validation_error("PDF is not readable",
                          [is_readable |-> FALSE, ats_compliant |-> FALSE,
                           fields |-> EmptyDict]),
          ats_calls |-> 0]
    ELSE LET ats_result == check_ats_compliance(req.doc)
         IN  [response |->
                 IF ats_result.kind = "raise" THEN server_error(ats_result.error)
                 ELSE success([is_readable |-> TRUE] @@ ats_result.value,
                              "PDF readability and ATS compliance check completed."),
              ats_calls |-> 1]

(***************************************************************************)
(* State.  The service keeps nothing between requests: the state is one    *)
(* request on its way through a route (Spec), one call of a section parser *)
(* (SpecParsers), or one run of the segmenter's loop (SpecSegmenter).      *)
(***************************************************************************)
VARIABLES
    pc,               \* where the request or the call is
    request,          \* Spec: the request received
    response,         \* Spec: the response sent
    ats_runs,         \* Spec: calls of check_ats_compliance made for the request
    fn,               \* SpecParsers: the function called
    arg,              \* SpecParsers, SpecSegmenter: its argument
    ret,              \* SpecParsers, SpecSegmenter: its return value
    lines,            \* SpecSegmenter: text.split('\n')
    pos,              \* SpecSegmenter: the line the loop is at (1-based)
    current_section,  \* SpecSegmenter: the local of the same name
    current_content,  \* SpecSegmenter: the local of the same name
    sections,         \* SpecSegmenter: the local of the same name
    appended          \* SpecSegmenter: per kind, the lines current_content.append took

vars == <<pc, request, response, ats_runs, fn, arg, ret, lines, pos,
          current_section, current_content, sections, appended>>

serviceVars == <<request, response, ats_runs>>
callVars == <<fn, arg, ret>>
loopVars == <<lines, pos, current_section, current_content, sections, appended>>

NoRequest == [route |-> "none"]
NoResponse == [status_code |-> 0]

ServiceIdle == request = NoRequest /\ response = NoResponse /\ ats_runs = 0
CallIdle == fn = "none" /\ arg = <<>> /\ ret = <<>>
LoopIdle ==
    /\ lines = <<>> /\ pos = 0
    /\ current_section = NoSection /\ current_content = <<>>
    /\ sections = EmptyDict /\ appended = EmptyDict

(***************************************************************************)
(* Spec: the two routes.                                                   *)
(***************************************************************************)
MaxPages == 2

\* n words separated by single spaces
Words(n) == [i \in 1..(2 * n - 1) |-> IF i % 2 = 1 THEN "w" ELSE " "]

PageContact == <<"J","o","h","n"," ","S","m","i","t","h","\n","j","o","h","n","@","m","a","i","l",".","c","o","m"," ","|"," ","5","5","5","-","1","2","3","-","4","5","6","7"," ","|"," ","B","e","r","l","i","n","\n","S","K","I","L","L","S","\n","P","y","t","h","o","n",","," ","G","o">>
PageAdditional == <<"A","d","d","i","t","i","o","n","a","l"," ","I","n","f","o","r","m","a","t","i","o","n","\n","S","k","i","l","l","s",":"," ","R","u","s","t",","," ","G","o","\n","V","o","l","u","n","t","e","e","r",":"," ","R","e","d"," ","C","r","o","s","s","\n","C","h","e","s","s"," ","c","l","u","b">>
PageHistory == <<"E","X","P","E","R","I","E","N","C","E","\n","A","c","m","e"," ","C","o","r","p"," ","|"," ","0","1","/","2","0","2","0"," ","-"," ","1","2","/","2","0","2","2"," ","|"," ","R","e","m","o","t","e"," ","|"," ","P","r","o","j","e","c","t","X","\n","D","i","d"," ","g","r","e","a","t"," ","t","h","i","n","g","s","\n","E","D","U","C","A","T","I","O","N","\n","M","I","T"," ","|"," ","C","a","m","b","r","i","d","g","e"," ","|"," ","2","0","1","9">>
PageOther == <<"A","d","d","i","t","i","o","n","a","l"," ","I","n","f","o","r","m","a","t","i","o","n","\n","C","h","e","s","s"," ","c","l","u","b","\n","L","a","n","g","u","a","g","e","s",":"," ","E","n","g","l","i","s","h">>

\* what page.extract_text() gives for a page
PageSet ==
    {None, <<>>, <<" "," ","\n">>, Throws, Words(25), Words(26), Words(50), Words(51),
     PageContact, PageAdditional, PageHistory, PageOther}

Docs ==
    {[opens |-> FALSE, pages |-> <<>>]}
        \cup {[opens |-> TRUE, pages |-> ps] : ps \in SeqsUpTo(PageSet, MaxPages)}

Routes == {"/api/parse_resume", "/api/is_readable"}

Requests ==
    {[route |-> r, has_url |-> FALSE, download |-> "ok",
      doc |-> [opens |-> FALSE, pages |-> <<>>]] : r \in Routes}
        \cup {[route |-> r, has_url |-> TRUE, download |-> d,
               doc |-> [opens |-> FALSE, pages |-> <<>>]] :
                  r \in Routes, d \in DownloadOutcomes \ {"ok"}}
        \cup {[route |-> r, has_url |-> TRUE, download |-> "ok", doc |-> d] :
                  r \in Routes, d \in Docs}

Init ==
    /\ pc = "idle"
    /\ ServiceIdle /\ CallIdle /\ LoopIdle

\* a POST arrives
Receive ==
    /\ pc = "idle"
    /\ \E req \in Requests : request' = req
    /\ pc' = "received"
    /\ UNCHANGED <<response, ats_runs, callVars, loopVars>>

\* @app.route('/api/parse_resume')
ParseResume ==
    /\ pc = "received"
    /\ request.route = "/api/parse_resume"
    /\ response' = parse_resume(request)
    /\ pc' = "responded"
    /\ UNCHANGED <<request, ats_runs, callVars, loopVars>>

\* @app.route('/api/is_readable')
IsReadable ==
    /\ pc = "received"
    /\ request.route = "/api/is_readable"
    /\ LET out == is_readable(request)
       IN  response' = out.response /\ ats_runs' = out.ats_calls
    /\ pc' = "responded"
    /\ UNCHANGED <<request, callVars, loopVars>>

Next == Receive \/ ParseResume \/ IsReadable

Spec == Init /\ [][Next]_vars

(***************************************************************************)
(* SpecParsers: one call of a section parser on a list of section lines.   *)
(***************************************************************************)
MaxSectionLines == 3

ExperienceLines ==
    {<<"A","c","m","e"," ","C","o","r","p"," ","|"," ","0","1","/","2","0","2","0"," ","-"," ","1","2","/","2","0","2","2"," ","|"," ","R","e","m","o","t","e"," ","|"," ","P","r","o","j","e","c","t","X">>,
     <<"D","i","d"," ","g","r","e","a","t"," ","t","h","i","n","g","s">>,
     <<"B","e","t","a"," ","L","L","C"," ","|"," ","2","0","2","1"," ","-"," ","P","r","e","s","e","n","t"," ","|"," ","B","e","r","l","i","n">>,
     <<"G","a","m","m","a"," ","|"," ","I","n","t","e","r","n">>,
     <<"D","e","l","t","a"," ","I","n","c"," ","|"," ","2","0","1","8"," ","-"," ","0","3","/","2","0","1","9"," ","|"," ","N","Y","C"," ","|"," ","A","l","p","h","a">>,
     <<"-"," ","s","h","i","p","p","e","d"," ","v","2">>,
     <<"L","e","d"," ","a"," ","t","e","a","m"," ","o","f"," ","5">>}

EducationLines ==
    {<<"M","I","T"," ","|"," ","C","a","m","b","r","i","d","g","e"," ","|"," ","2","0","1","9">>,
     <<"S","t","a","n","f","o","r","d"," ","|"," ","C","A"," ","|"," ","C","l","a","s","s"," ","o","f"," ","2","0","2","1"," ","|"," ","3",".","9">>,
     <<"O","x","f","o","r","d">>,
     <<"Y","a","l","e"," ","|"," ","N","e","w"," ","H","a","v","e","n">>,
     <<"-"," ","D","e","a","n","'","s"," ","l","i","s","t">>,
     <<"E","T","H"," ","|"," ","Z","u","r","i","c","h"," ","|"," ","n","/","a">>}

SkillsLines == {<<"P","y","t","h","o","n",","," ","G","o",","," ","R","u","s","t">>, <<"C",","," ","R",","," ","-","x",","," ","S","Q","L">>, <<"-"," ","t","o","o","l","s">>, <<"D","o","c","k","e","r"," "," ","G","i","t">>}

AdditionalLines ==
    {<<"S","k","i","l","l","s",":"," ","R","u","s","t",","," ","G","o">>, <<"V","o","l","u","n","t","e","e","r",":"," ","R","e","d"," ","C","r","o","s","s">>, <<"C","h","e","s","s"," ","c","l","u","b">>, <<"-"," ","m","i","s","c">>}

Calls ==
    {<<"_parse_experience_detailed", a>> : a \in SeqsUpTo(ExperienceLines, MaxSectionLines)}
        \cup {<<"_parse_education_detailed", a>> :
                 a \in SeqsUpTo(EducationLines, MaxSectionLines)}
        \cup {<<"_parse_skills_improved", a>> : a \in SeqsUpTo(SkillsLines, MaxSectionLines)}
        \cup {<<"_parse_additional_info", a>> :
                 a \in SeqsUpTo(AdditionalLines, MaxSectionLines)}

InitParsers ==
    /\ pc = "called"
    /\ \E c \in Calls : fn = c[1] /\ arg = c[2]
    /\ ret = <<>>
    /\ ServiceIdle /\ LoopIdle

Returns(f, value) ==
    /\ pc = "called"
    /\ fn = f
    /\ ret' = value
    /\ pc' = "returned"
    /\ UNCHANGED <<fn, arg, serviceVars, loopVars>>

ParseExperienceDetailed ==
    Returns("_parse_experience_detailed", _parse_experience_detailed(arg))
ParseEducationDetailed ==
    Returns("_parse_education_detailed", _parse_education_detailed(arg))
ParseSkillsImproved == Returns("_parse_skills_improved", _parse_skills_improved(arg))
ParseAdditionalInfo == Returns("_parse_additional_info", _parse_additional_info(arg))

NextParsers ==
    \/ ParseExperienceDetailed
    \/ ParseEducationDetailed
    \/ ParseSkillsImproved
    \/ ParseAdditionalInfo

SpecParsers == InitParsers /\ [][NextParsers]_vars

(***************************************************************************)
(* SpecSegmenter: _extract_sections_improved, one loop iteration a step.   *)
(***************************************************************************)
MaxTextLines == 4

TextLines ==
    {<<"S","K","I","L","L","S">>, <<"P","y","t","h","o","n",","," ","G","o",","," ","R","u","s","t">>, <<"E","d","u","c","a","t","i","o","n">>, <<" "," ","M","I","T"," ","|"," ","C","a","m","b","r","i","d","g","e"," ","|"," ","2","0","1","9"," ">>,
     <<"-","-","-","-","-","-","-","-","-","-","-","-">>, <<"R","E","F","E","R","E","N","C","E","S">>}

\* the texts extract_resume_info passes on: every page's text ends with "\n",
\* and the text is not blank
Texts ==
    {t \in {Join(ls, <<"\n">>) \o <<"\n">> : ls \in SeqsUpTo(TextLines, MaxTextLines)} :
        Strip(t) # <<>>}

InitSegmenter ==
    /\ pc = "called"
    /\ fn = "_extract_sections_improved"
    /\ arg \in Texts
    /\ ret = <<>>
    /\ ServiceIdle /\ LoopIdle

\* the statements before the loop
SegmentBegin ==
    /\ pc = "called"
    /\ lines' = Split(arg, "\n")
    /\ pos' = 1
    /\ sections' = SegmentStart.sections
    /\ current_section' = SegmentStart.current_section
    /\ current_content' = SegmentStart.current_content
    /\ appended' = [k \in SectionKinds |-> <<>>]
    /\ pc' = "loop"
    /\ UNCHANGED <<fn, arg, ret, serviceVars>>

Locals ==
    [sections |-> sections, current_section |-> current_section,
     current_content |-> current_content]

\* one iteration of `for line in lines`
SegmentStep ==
    /\ pc = "loop"
    /\ pos <= Len(lines)
    /\ LET st == SegmentLine(Locals, lines[pos])
       IN  /\ sections' = st.sections
           /\ current_section' = st.current_section
           /\ current_content' = st.current_content
    /\ appended' =
          IF Branch(current_section, lines[pos]) = "body"
          THEN [appended EXCEPT ![current_section] = Append(@, Strip(lines[pos]))]
          ELSE appended
    /\ pos' = pos + 1
    /\ UNCHANGED <<pc, lines, fn, arg, ret, serviceVars>>

\* "Save last section" and return
SegmentEnd ==
    /\ pc = "loop"
    /\ pos > Len(lines)
    /\ sections' = SaveSection(Locals)
    /\ ret' = sections'
    /\ pc' = "returned"
    /\ UNCHANGED <<lines, pos, current_section, current_content, appended, fn, arg,
                   serviceVars>>

NextSegmenter == SegmentBegin \/ SegmentStep \/ SegmentEnd

SpecSegmenter == InitSegmenter /\ [][NextSegmenter]_vars

(***************************************************************************)
(* Calls of check_ats_compliance on a document (SpecAts).                  *)
(***************************************************************************)
AtsPageFull ==
    <<"#"," ","J","o","h","n"," ","S","m","i","t","h","\n","j","o","h","n","@","m","a","i","l",".","c","o","m"," ","5","5","5","-","1","2","3","-","4","5","6","7","\n","#"," ","E","D","U","C","A","T","I","O","N","\n","M","I","T"," ","u","n","i","v","e","r","s","i","t","y","\n","#"," ","W","O","R","K"," ","E","X","P","E","R","I","E","N","C","E","\n","A","c","m","e"," ","c","o","m","p","a","n","y","\n","#"," ","A","D","D","I","T","I","O","N","A","L"," ","I","N","F","O","R","M","A","T","I","O","N","\n","S","k","i","l","l","s",":"," ","G","o">>
AtsPageSkillsLine == <<"S","k","i","l","l","s",":"," ","P","y","t","h","o","n">>
AtsPageSkillsSection == <<"#","#"," ","A","d","d","i","t","i","o","n","a","l"," ","I","n","f","o","r","m","a","t","i","o","n","\n","m","y"," ","s","k","i","l","l","s">>
AtsPageContent == <<"M","I","T"," ","u","n","i","v","e","r","s","i","t","y","\n","A","c","m","e"," ","c","o","m","p","a","n","y">>
AtsPageTitles == <<"#"," ","E","D","U","C","A","T","I","O","N","\n","#"," ","W","O","R","K"," ","E","X","P","E","R","I","E","N","C","E">>

\* what page.extract_text() gives for a page
AtsPageSet ==
    {None, <<>>, <<" "," ","\n">>, Throws, AtsPageFull, AtsPageSkillsLine, AtsPageSkillsSection,
     AtsPageContent, AtsPageTitles}

AtsDocs ==
    {[opens |-> FALSE, pages |-> <<>>]}
        \cup {[opens |-> TRUE, pages |-> ps] : ps \in SeqsUpTo(AtsPageSet, MaxPages)}

InitAts ==
    /\ pc = "called"
    /\ fn = "check_ats_compliance"
    /\ arg \in AtsDocs
    /\ ret = <<>>
    /\ ServiceIdle /\ LoopIdle

CheckAtsCompliance == Returns("check_ats_compliance", check_ats_compliance(arg))

NextAts == CheckAtsCompliance

SpecAts == InitAts /\ [][NextAts]_vars

(***************************************************************************)
(* Properties of the routes (Spec).                                        *)
(***************************************************************************)
Handled(route) ==
    /\ pc = "responded"
    /\ request.route = route
    /\ request.has_url
    /\ request.download = "ok"

\* the pages of a document that yielded text
TextPages(doc) ==
    {k \in 1..Len(doc.pages) : doc.pages[k] # None /\ doc.pages[k] # Throws}

\* no page yields a character that is not whitespace
AllPagesBlank(doc) ==
    \A k \in TextPages(doc) : \A i \in 1..Len(doc.pages[k]) : IsSpace(doc.pages[k][i])

\* the number of words of the document: the words of its pages, added up
RECURSIVE WordCountFrom(_, _)
WordCountFrom(doc, k) ==
    IF k > Len(doc.pages) THEN 0
    ELSE (IF k \in TextPages(doc) THEN Len(SplitWords(doc.pages[k])) ELSE 0)
         + WordCountFrom(doc, k + 1)

WordCount(doc) == WordCountFrom(doc, 1)

NineCategories ==
    {"full_name", "email", "phone", "education", "work_experience", "skills",
     "location", "interests", "volunteer"}

\* C1: for every document whose extracted text is not empty, check_ats_compliance
\* returns (does not raise) a report with one boolean for each of the 9
\* categories and ats_compliant equal to the AND of the 9.
C1_AtsReportIsAndOfNine ==
    (Handled("/api/is_readable") /\ ats_runs = 1
        /\ ~ExtractionThrows(request.doc) /\ ~AllPagesBlank(request.doc))
    => /\ response.status_code = 200
       /\ DOMAIN response.data.fields = NineCategories
       /\ \A c \in NineCategories : response.data.fields[c] \in BOOLEAN
       /\ response.data.ats_compliant =
             (\A c \in NineCategories : response.data.fields[c])

UnreadableData ==
    [is_readable |-> FALSE, ats_compliant |-> FALSE, fields |-> EmptyDict]

\* C2: a document of fewer than MIN_WORDS_THRESHOLD words, or one whose text
\* extraction throws inside validate_pdf, gets is_readable = false with
\* ats_compliant = false and an empty fields map, in a response the route returns
\* (nothing is raised), and check_ats_compliance is not run.
C2_UnreadableShortCircuits ==
    (Handled("/api/is_readable")
        /\ (ExtractionThrows(request.doc)
               \/ WordCount(request.doc) < MIN_WORDS_THRESHOLD))
    => /\ response.status_code = 400
       /\ response.data = UnreadableData
       /\ ats_runs = 0

C2_Witness ==
    /\ Handled("/api/is_readable")
    /\ ~ExtractionThrows(request.doc)
    /\ WordCount(request.doc) > 0
    /\ WordCount(request.doc) < MIN_WORDS_THRESHOLD
    /\ response.status_code = 400
    /\ ats_runs = 0

IsList(x) == DOMAIN x = 1..Len(x)

\* every key of the result schema is there, a str or a list under each
HasSchema(d) ==
    /\ DOMAIN d = {"full_name", "email", "phone", "location", "links",
                   "work_experience", "education", "additional_info"}
    /\ DOMAIN d.links = {"github", "linkedin", "portfolio"}
    /\ DOMAIN d.additional_info = {"skills", "interests", "volunteer"}
    /\ \A k \in {"full_name", "email", "phone", "location", "work_experience",
                 "education"} : IsList(d[k])
    /\ \A k \in DOMAIN d.links : IsList(d.links[k])
    /\ \A k \in DOMAIN d.additional_info : IsList(d.additional_info[k])

\* the characters of the pages that yielded text
PageChars(doc) == UNION {Range(doc.pages[k]) : k \in TextPages(doc)}

\* the lines of the pages that yielded text
PageLines(doc) == UNION {Range(Split(doc.pages[k], "\n")) : k \in TextPages(doc)}

\* what extractors that found nothing leave in the record
MissesAreEmpty(doc, d) ==
    /\ "@" \notin PageChars(doc) => d.email = <<>>
    /\ PageChars(doc) \cap DigitSet = {} => d.phone = <<>>
    /\ "/" \notin PageChars(doc) =>
          d.links = [github |-> <<>>, linkedin |-> <<>>, portfolio |-> <<>>]
    /\ (\A l \in PageLines(doc) : FoundSection(Lower(l)) = NoSection) =>
          /\ d.work_experience = <<>>
          /\ d.education = <<>>
          /\ d.additional_info =
                [skills |-> <<>>, interests |-> <<>>, volunteer |-> <<>>]

\* C3: extract_resume_info fails exactly when the page-text extraction throws or
\* the text joined from the pages is empty or whitespace-only; otherwise it
\* returns a record with every schema key, "" or [] where nothing was found.
C3_FailsOnlyOnDocumentFailure ==
    Handled("/api/parse_resume")
    => /\ (response.status_code = 500)
             = (ExtractionThrows(request.doc) \/ AllPagesBlank(request.doc))
       /\ response.status_code # 500 =>
             /\ response.status_code = 200
             /\ HasSchema(response.data)
             /\ MissesAreEmpty(request.doc, response.data)

C3_Witness ==
    /\ Handled("/api/parse_resume")
    /\ \E k \in 1..Len(request.doc.pages) : request.doc.pages[k] = None
    /\ response.status_code = 200
    /\ response.data.email = <<>>
    /\ response.data.education = <<>>
    /\ response.data.additional_info.interests # <<>>

\* the body the claim gives the "Additional Information" section: the lines after
\* its header line, when no line after it is the header of another section
\* (a "Skills:" or "Volunteer:" label starts a line of the body, not a section)
IsLabelled(l) == MatchAt(l, 1, <<"S","k","i","l","l","s",":">>) \/ MatchAt(l, 1, <<"V","o","l","u","n","t","e","e","r",":">>)

AdditionalHeaders(ls) ==
    {h \in 1..Len(ls) :
        /\ FoundSection(Lower(Strip(ls[h]))) = "additional_info"
        /\ \A j \in (h + 1)..Len(ls) :
              FoundSection(Lower(Strip(ls[j]))) = NoSection \/ IsLabelled(Strip(ls[j]))}

NonBlank(l) == l # <<>>

AdditionalBody(ls, h) ==
    SelectSeq([j \in 1..(Len(ls) - h) |-> Strip(ls[h + j])], NonBlank)

IsSuffix(s, t) == Len(s) <= Len(t) /\ SubSeq(t, Len(t) - Len(s) + 1, Len(t)) = s

\* C10: in extract_resume_info, every line of the "Additional Information"
\* section that does not start with '-' is classified by the catch-all parser
\* (volunteer, skills, otherwise interests) and its items are appended after
\* those of the dedicated sections.
C10_AdditionalLinesClassified ==
    (Handled("/api/parse_resume") /\ response.status_code = 200)
    => LET ls == Split(JoinPages(request.doc.pages), "\n")
       IN  \A h \in AdditionalHeaders(ls) :
              LET want == _parse_additional_info(AdditionalBody(ls, h))
                  got  == response.data.additional_info
              IN  /\ IsSuffix(want.skills, got.skills)
                  /\ IsSuffix(want.volunteer, got.volunteer)
                  /\ IsSuffix(want.interests, got.interests)

(***************************************************************************)
(* Properties of the section parsers (SpecParsers).                        *)
(***************************************************************************)
Returned(f) == pc = "returned" /\ fn = f

HasPipe(l) == "|" \in Range(l)

\* the header lines of a list of experience lines, and the place in the result
\* of the entry a header opens (every header of ExperienceLines names a company)
Headers(ls) == {k \in 1..Len(ls) : HasPipe(ls[k])}
EntryOf(ls, k) == Cardinality({j \in Headers(ls) : j <= k})

\* the lines between header k and the next header (or the end)
Following(ls, k) == {m \in (k + 1)..Len(ls) : \A j \in (k + 1)..m : ~HasPipe(ls[j])}

\* a header of the form "company | date range | location | projects"
IsFullHeader(l) == Len(Parts(l)) = 4 /\ Len(DateTokens(Parts(l)[2])) >= 2

\* what the claim says of the entry of a full header, given which of the
\* following lines its description has to contain
FullHeaderEntry(ls, k, e, described(_)) ==
    LET p == Parts(ls[k])
        d == DateTokens(p[2])
    IN  /\ e.Company_Name = p[1]
        /\ e.location = p[3]
        /\ e.projects = p[4]
        /\ e.start_date = d[1]
        /\ e.end_date = d[2]
        /\ \A m \in Following(ls, k) : described(ls[m]) => Contains(e.description, ls[m])

C4Example ==
    << <<"A","c","m","e"," ","C","o","r","p"," ","|"," ","0","1","/","2","0","2","0"," ","-"," ","1","2","/","2","0","2","2"," ","|"," ","R","e","m","o","t","e"," ","|"," ","P","r","o","j","e","c","t","X">>, <<"D","i","d"," ","g","r","e","a","t"," ","t","h","i","n","g","s">> >>

AnyLine(l) == TRUE
NoDashLine(l) == l[1] # "-"

\* C4 as claimed: the entry of a header "company | date range | location |
\* projects" has these fields, the two date tokens of field 2 as start_date and
\* end_date, and a description containing the non-pipe lines that follow; for
\* the example lines the one entry has start_date "2020" or "01/2020" and
\* end_date "2022".
C4_AsClaimed ==
    Returned("_parse_experience_detailed")
    => /\ \A k \in Headers(arg) :
             IsFullHeader(arg[k])
             => FullHeaderEntry(arg, k, ret[EntryOf(arg, k)], AnyLine)
       /\ arg = C4Example =>
             /\ Len(ret) = 1
             /\ ret[1].Company_Name = <<"A","c","m","e"," ","C","o","r","p">>
             /\ ret[1].start_date \in {<<"2","0","2","0">>, <<"0","1","/","2","0","2","0">>}
             /\ ret[1].end_date = <<"2","0","2","2">>
             /\ ret[1].location = <<"R","e","m","o","t","e">>
             /\ Contains(ret[1].description, <<"D","i","d"," ","g","r","e","a","t"," ","t","h","i","n","g","s">>)

\* C4, amended: the description contains the following non-pipe lines that do
\* not start with '-', and for the example lines start_date is "01/2020" and
\* end_date is "12/2022" (the date tokens are kept whole).
C4_FullHeaderEntry ==
    Returned("_parse_experience_detailed")
    => /\ \A k \in Headers(arg) :
             IsFullHeader(arg[k])
             => FullHeaderEntry(arg, k, ret[EntryOf(arg, k)], NoDashLine)
       /\ arg = C4Example =>
             /\ Len(ret) = 1
             /\ ret[1].Company_Name = <<"A","c","m","e"," ","C","o","r","p">>
             /\ ret[1].start_date = <<"0","1","/","2","0","2","0">>
             /\ ret[1].end_date = <<"1","2","/","2","0","2","2">>
             /\ ret[1].location = <<"R","e","m","o","t","e">>
             /\ ret[1].projects = <<"P","r","o","j","e","c","t","X">>
             /\ Contains(ret[1].description, <<"D","i","d"," ","g","r","e","a","t"," ","t","h","i","n","g","s">>)

C4_Witness ==
    /\ Returned("_parse_experience_detailed")
    /\ arg = C4Example
    /\ Len(ret) = 1
    /\ ret[1].end_date = <<"1","2","/","2","0","2","2">>

\* C7: every field of an entry is determined by the entry's own header line and
\* the non-pipe lines between that header and the next one: the entry is what
\* the parser makes of those lines alone, and an entry whose header states no
\* second date token has end_date = None.
C7_EntryFromOwnLines ==
    Returned("_parse_experience_detailed")
    => /\ Len(ret) = Cardinality(Headers(arg))
       /\ \A k \in Headers(arg) :
             LET own == SubSeq(arg, k, k + Cardinality(Following(arg, k)))
                 e   == ret[EntryOf(arg, k)]
             IN  /\ <<e>> = _parse_experience_detailed(own)
                 /\ Len(DateTokens(Parts(arg[k])[2])) < 2 => e.end_date = None

\* the input lines _parse_education_detailed keeps, and the place of line k
\* among them
KeptLines(ls) == {k \in 1..Len(ls) : ls[k] # <<>> /\ ls[k][1] # "-"}
RankOf(ls, k) == Cardinality({j \in KeptLines(ls) : j <= k})

\* the n-th '|'-separated field of a line, stripped ("" when there is none)
FieldOf(l, n) == IF n <= Len(Split(l, "|")) THEN Strip(Split(l, "|")[n]) ELSE <<>>

\* the first run of four digits in s ("" when there is none)
FirstYear(s) ==
    LET at == {i \in 1..Len(s) : DigitsAt(s, i, 4)}
    IN  IF at = {} THEN <<>> ELSE SubSeq(s, SetMin(at), SetMin(at) + 3)

IsBlankOrSeparator(l) == l = <<>> \/ (l[1] = "-" /\ Len(l) > 10)

\* the lines that contain a trigger phrase of some kind, and the kind
HeaderLines(ls) ==
    {h \in 1..Len(ls) :
        /\ ~IsBlankOrSeparator(Strip(ls[h]))
        /\ FoundSection(Lower(Strip(ls[h]))) # NoSection}
KindOf(ls, h) == FoundSection(Lower(Strip(ls[h])))

\* the body lines that follow header h, up to the next header or the end of the
\* input: stripped, in order, blank lines and dash separators left out
BodyIndexes(ls, h) ==
    {j \in (h + 1)..Len(ls) :
        /\ \A i \in (h + 1)..j : i \notin HeaderLines(ls)
        /\ ~IsBlankOrSeparator(Strip(ls[j]))}
BodyOf(ls, h) ==
    LET at == Sorted(BodyIndexes(ls, h))
    IN  [k \in 1..Len(at) |-> Strip(ls[at[k]])]

\* header h is the last header of its kind that has a body
IsLastWithBody(ls, h) ==
    \A g \in HeaderLines(ls) :
        (g > h /\ KindOf(ls, g) = KindOf(ls, h)) => BodyOf(ls, g) = <<>>

C6Example == <<"S","K","I","L","L","S","\n","P","y","t","h","o","n",","," ","G","o",","," ","R","u","s","t","\n">>

C6ExampleHolds ==
    arg = C6Example =>
        /\ ret = ("skills" :> << <<"P","y","t","h","o","n",","," ","G","o",","," ","R","u","s","t">> >>)
        /\ _parse_skills_improved(ret["skills"]) = << <<"P","y","t","h","o","n">>, <<"G","o">>, <<"R","u","s","t">> >>

RECURSIVE IsSubseq(_, _)
IsSubseq(s, t) ==
    IF s = <<>> THEN TRUE
    ELSE IF t = <<>> THEN FALSE
    ELSE IF s[1] = t[1] THEN IsSubseq(Tail(s), Tail(t))
    ELSE IsSubseq(s, Tail(t))

\* C8: every line appended to the body of an open section is in the returned
\* sections map under that kind, in reading order.
C8_NoBodyLineLost ==
    pc = "returned"
    => \A kind \in SectionKinds :
          appended[kind] # <<>>
          => /\ kind \in DOMAIN ret
             /\ IsSubseq(appended[kind], ret[kind])

SectionStaysOpen ==
    [][(pc = "loop" /\ pos <= Len(lines))
       => /\ Branch(current_section, lines[pos]) # "boundary"
          /\ current_section # NoSection => current_section' # NoSection]_vars

(***************************************************************************)
(* The readability threshold (Spec).                                       *)
(***************************************************************************)
\* C12: validate_pdf returns true if and only if the number of
\* whitespace-separated words over all pages that yielded text is strictly
\* greater than 50, however the words are distributed over the pages.  (The route
\* runs check_ats_compliance exactly when validate_pdf returned true.)
C12_ReadableIffOverThreshold ==
    (Handled("/api/is_readable") /\ ~ExtractionThrows(request.doc))
    => ((ats_runs = 1) <=> (WordCount(request.doc) > MIN_WORDS_THRESHOLD))

(***************************************************************************)
(* The categories of the compliance report (SpecAts).                      *)
(***************************************************************************)
\* a call of check_ats_compliance that is over, on a document whose text was read
\* and is not blank
AtsCallOnText ==
    /\ Returned("check_ats_compliance")
    /\ ~ExtractionThrows(arg)
    /\ Strip(JoinPages(arg.pages)) # <<>>

\* the dict fields that lines 75-142 compute for the document of the call, when
\* work_content_found is b
FieldsOfCall(b) == AtsFields(JoinPages(arg.pages), PageLinesOf(arg.pages), b)

C13_NeverCompliant ==
    Returned("check_ats_compliance")
    => /\ ret.kind = "return" => ret.value.ats_compliant = FALSE
       /\ AtsCallOnText
             => \A b \in BOOLEAN :
                   /\ ~FieldsOfCall(b).location
                   /\ ~FieldsOfCall(b).interests
                   /\ ~FieldsOfCall(b).volunteer
                   /\ AtsReport(FieldsOfCall(b)).ats_compliant = FALSE

\* a call on a document in which every other category is found
C13_Witness ==
    /\ AtsCallOnText
    /\ \A c \in NineCategories \ {"location", "interests", "volunteer"} :
          FieldsOfCall(TRUE)[c]
    /\ AtsReport(FieldsOfCall(TRUE)).ats_compliant = FALSE

=============================================================================
